---- MODULE Spec2Model ----
(***************************************************************************)
(* Model of functions/main.py: the HTTP-triggered handler rag_api_handler, *)
(* its helper create_response and the module-level CORS_HEADERS.           *)
(*                                                                         *)
(* Strings that are only compared are TLA+ strings.  A text that is split  *)
(* is a sequence of tokens [c, n]: "\n" and " " are single characters, and *)
(* a token with c = "x" is a block of n characters that holds no blank     *)
(* line ("\n\n") and neither starts nor ends with whitespace.              *)
(***************************************************************************)
EXTENDS Integers, Sequences, FiniteSets, TLC

\* ------------------------------------------------------------- bounds
NumInvocations == 2
MaxTokens == 7

Invocations == 1..NumInvocations

\* ------------------------------------------------- program constants
chunk_size == 500
\* An overlap that is not zero, for comparison with the one the handler passes.
chunk_overlap_nonzero == 250 + 1
chunk_overlap == 0
NO_CONTENT == 204
INTERNAL_SERVER_ERROR == 500
OK == 200
DefaultK == 4

\* ------------------------------------------------------------- texts
NL == [c |-> "\n", n |-> 1]
SP == [c |-> " ", n |-> 1]
Blk(n) == [c |-> "x", n |-> n]

IsWs(t) == t.c \in {"\n", " "}

RECURSIVE StrLen(_)
StrLen(s) == IF s = <<>> THEN 0 ELSE Head(s).n + StrLen(Tail(s))

RECURSIVE Flatten(_)
Flatten(ss) == IF ss = <<>> THEN <<>> ELSE Head(ss) \o Flatten(Tail(ss))

\* The separator CharacterTextSplitter uses when none is given: "\n\n".
separator == <<NL, NL>>

\* The literal knowledge_text: 947 characters, eight paragraphs between
\* blank lines, "\n" and four spaces before the first and after the last.
knowledge_text ==
    <<NL, SP, SP, SP, SP, Blk(63)>> \o separator \o <<Blk(60)>> \o separator
    \o <<Blk(35)>> \o separator \o <<Blk(132)>> \o separator \o <<Blk(158)>>
    \o separator \o <<Blk(27)>> \o separator \o <<Blk(403)>> \o separator
    \o <<Blk(45), NL, SP, SP, SP, SP>>

\* text.split("\n\n"): the pieces between the non-overlapping occurrences of
\* the separator, found left to right, empty pieces included.
RECURSIVE SplitOnSeparator(_, _)
SplitOnSeparator(s, cur) ==
    IF s = <<>> THEN <<cur>>
    ELSE IF Len(s) >= 2 /\ SubSeq(s, 1, 2) = separator
         THEN <<cur>> \o SplitOnSeparator(SubSeq(s, 3, Len(s)), <<>>)
         ELSE SplitOnSeparator(Tail(s), Append(cur, Head(s)))

\* _split_text_with_regex: split, then drop the empty pieces.
split_text_with_regex(s) ==
    SelectSeq(SplitOnSeparator(s, <<>>), LAMBDA p : p /= <<>>)

RECURSIVE LStrip(_)
LStrip(s) == IF s /= <<>> /\ IsWs(Head(s)) THEN LStrip(Tail(s)) ELSE s

RECURSIVE RStrip(_)
RStrip(s) ==
    IF s /= <<>> /\ IsWs(s[Len(s)]) THEN RStrip(SubSeq(s, 1, Len(s) - 1)) ELSE s

strip(s) == RStrip(LStrip(s))

RECURSIVE Join(_)
Join(ps) ==
    IF ps = <<>> THEN <<>>
    ELSE IF Len(ps) = 1 THEN ps[1]
    ELSE ps[1] \o separator \o Join(Tail(ps))

\* _join_docs: the pieces joined by the separator and stripped; <<>> stands
\* for the None it returns when nothing but whitespace is left.
join_docs(ps) == strip(Join(ps))

SepLen(k) == IF k THEN StrLen(separator) ELSE 0

\* The while loop of _merge_splits: drop pieces from the front of
\* current_doc until what is kept is no longer than the overlap.
RECURSIVE PopWhile(_, _, _)
PopWhile(cur, total, len) ==
    IF \/ total > chunk_overlap
       \/ (total + len + SepLen(Len(cur) > 0) > chunk_size /\ total > 0)
    THEN PopWhile(Tail(cur), total - (StrLen(cur[1]) + SepLen(Len(cur) > 1)), len)
    ELSE [cur |-> cur, total |-> total]

\* One iteration of the for loop of _merge_splits on piece d.
merge_step(st, d) ==
    LET len == StrLen(d)
        over == st.total + len + SepLen(Len(st.cur) > 0) > chunk_size
        doc == join_docs(st.cur)
        popped == PopWhile(st.cur, st.total, len)
        fl == IF over /\ Len(st.cur) > 0
              THEN [docs |-> IF doc /= <<>> THEN Append(st.docs, doc) ELSE st.docs,
                    cur |-> popped.cur, total |-> popped.total]
              ELSE st
        cur2 == Append(fl.cur, d)
    IN [docs |-> fl.docs, cur |-> cur2,
        total |-> fl.total + len + SepLen(Len(cur2) > 1)]

RECURSIVE MergeLoop(_, _)
MergeLoop(st, splits) ==
    IF splits = <<>> THEN st ELSE MergeLoop(merge_step(st, Head(splits)), Tail(splits))

\* _merge_splits: the loop, then the last document.
merge_splits(splits) ==
    LET st == MergeLoop([docs |-> <<>>, cur |-> <<>>, total |-> 0], splits)
        doc == join_docs(st.cur)
    IN IF doc /= <<>> THEN Append(st.docs, doc) ELSE st.docs

\* CharacterTextSplitter(chunk_size=500, chunk_overlap=0).split_text(text)
split_text(s) == merge_splits(split_text_with_regex(s))

\* ------------------------------------------------------- dictionaries
EmptyDict == [k \in {} |-> ""]

\* dict.update(other): other's entries added to, or set in, the dictionary.
DictUpdate(d, other) ==
    [k \in DOMAIN d \cup DOMAIN other |-> IF k \in DOMAIN other THEN other[k] ELSE d[k]]

\* dict.get(key, default)
DictGet(d, key, default) == IF key \in DOMAIN d THEN d[key] ELSE default

\* The module-level CORS_HEADERS as the module defines it.
CORS_HEADERS_0 ==
    [h \in {"Access-Control-Allow-Origin", "Access-Control-Allow-Methods",
            "Access-Control-Allow-Headers", "Access-Control-Max-Age"} |->
        CASE h = "Access-Control-Allow-Origin" -> "*"
          [] h = "Access-Control-Allow-Methods" -> "GET, POST, OPTIONS"
          [] h = "Access-Control-Allow-Headers" -> "Content-Type, Authorization"
          [] h = "Access-Control-Max-Age" -> "3600"]

\* ------------------------------------------------------------ responses
NoResponse ==
    [kind |-> "none", text |-> "", json |-> EmptyDict, status |-> 0, headers |-> EmptyDict]

\* https_fn.Response(text, status=status)
https_fn_Response(t, status) ==
    [kind |-> "text", text |-> t, json |-> EmptyDict, status |-> status,
     headers |-> [h \in {"Content-Type"} |-> "text/plain; charset=utf-8"]]

\* jsonify(data): a JSON response, status 200 until the caller returns another.
jsonify(data) ==
    [kind |-> "json", text |-> "", json |-> data, status |-> OK,
     headers |-> [h \in {"Content-Type"} |-> "application/json"]]

\* `return response, status`: the platform sends response with that status.
WithStatus(r, status) == [r EXCEPT !.status = status]

\* create_response(response), cors being the CORS_HEADERS it reads.
create_response(r, cors) == [r EXCEPT !.headers = DictUpdate(@, cors)]

ErrorBody == [error |-> "OpenAI API Key (OPENAI_API_KEY) not set in environment."]

PreflightResponse_NoCors(cors) == https_fn_Response("", NO_CONTENT)

\* The response to OPTIONS.
PreflightResponse(cors) == create_response(https_fn_Response("", NO_CONTENT), cors)

MissingKeyResponse_NoStatus(cors) == create_response(jsonify(ErrorBody), cors)

\* The response when the key is missing.
MissingKeyResponse(cors) ==
    WithStatus(create_response(jsonify(ErrorBody), cors), INTERNAL_SERVER_ERROR)

\* ------------------------------------------------------------- requests
Fallback == "Firebase Functions RAG fallback question"

Methods == {"OPTIONS", "POST"}
Prompts == {"q1"}

\* What request.get_json(silent=True) yields: None (no body, or one that does
\* not parse), a JSON value that is no object, or the object.
Bodies ==
    {[kind |-> "none", fields |-> EmptyDict], [kind |-> "list", fields |-> EmptyDict],
     [kind |-> "dict", fields |-> EmptyDict]}
    \cup {[kind |-> "dict", fields |-> [k \in {key} |-> q]] :
            key \in {"prompt", "query"}, q \in Prompts}

Requests == [method : Methods, body : Bodies]
NoRequest == [method |-> "", body |-> [kind |-> "none", fields |-> EmptyDict]]

\* The values OPENAI_API_KEY.value can have: "" when the secret is not set.
Keys == {"", "sk-test"}

\* `not openai_api_key`
Falsy(k) == k = ""

GetPrompt_QueryKey(request_json) == DictGet(request_json.fields, "query", Fallback)

\* request_json.get('prompt', <fallback>)
GetPrompt(request_json) == DictGet(request_json.fields, "prompt", Fallback)

\* ------------------------------------------------------------ retrieval
Min(a, b) == IF a < b THEN a ELSE b

\* The retriever of as_retriever(): the DefaultK nearest documents of the
\* index, all of them when it holds fewer.  Which ones is the embedding
\* model's matter; the response reports only how many.
Retrieved(index) == SubSeq(index, 1, Min(DefaultK, Len(index)))

Answers == {"a1", "a2"}
NoResult == [input |-> "", context |-> <<>>, answer |-> ""]

SourceDocumentsCount_OfDict(r) == Cardinality(DOMAIN r)

\* len(response_txt['context'])
SourceDocumentsCount(r) == Len(r.context)

\* responce_data
ResponseData(query, r) ==
    [query |-> query, answer |-> r.answer,
     source_documents_count |-> SourceDocumentsCount(r), status |-> "success"]

\* The response of a completed flow.
SuccessResponse(query, r, cors) ==
    WithStatus(create_response(jsonify(ResponseData(query, r)), cors), OK)

\* ------------------------------------------------------------- state
VARIABLES
    CORS_HEADERS,    \* the module-level dictionary
    secret,          \* the value of the OPENAI_API_KEY secret
    pc,              \* per invocation: the step it is about to run
    request,         \* per invocation: the request it was called with
    openai_api_key, user_query, docs, vectorstore, response_txt,  \* its locals
    response,        \* per invocation: what it returned
    exception,       \* per invocation: the exception that left it, if any
    calls,           \* per invocation: the outcomes of its provider calls
    trace,           \* per invocation: the steps it ran, in order
    overlapped,      \* whether an invocation began while another was running
    text, chunks, splitDone   \* the splitter run on a text of its own

hvars == <<CORS_HEADERS, secret, pc, request, openai_api_key, user_query, docs,
           vectorstore, response_txt, response, exception, calls, trace, overlapped>>
svars == <<text, chunks, splitDone>>
vars == <<hvars, svars>>

NoCalls == [embed |-> <<>>, search |-> <<>>, chat |-> <<>>]

InitHandler ==
    /\ CORS_HEADERS = CORS_HEADERS_0
    /\ pc = [i \in Invocations |-> "idle"]
    /\ request = [i \in Invocations |-> NoRequest]
    /\ openai_api_key = [i \in Invocations |-> ""]
    /\ user_query = [i \in Invocations |-> ""]
    /\ docs = [i \in Invocations |-> <<>>]
    /\ vectorstore = [i \in Invocations |-> <<>>]
    /\ response_txt = [i \in Invocations |-> NoResult]
    /\ response = [i \in Invocations |-> NoResponse]
    /\ exception = [i \in Invocations |-> ""]
    /\ calls = [i \in Invocations |-> NoCalls]
    /\ trace = [i \in Invocations |-> <<>>]
    /\ overlapped = FALSE

Init ==
    /\ InitHandler
    /\ secret \in Keys
    /\ text = <<>>
    /\ chunks = <<>>
    /\ splitDone = TRUE

\* ------------------------------------------------------------ the handler
Step(i, from, to, name) ==
    /\ pc[i] = from
    /\ pc' = [pc EXCEPT ![i] = to]
    /\ trace' = [trace EXCEPT ![i] = Append(@, name)]

Running(i) == pc[i] \notin {"idle", "done", "fault"}

\* The platform calls rag_api_handler(request).
Receive(i) ==
    /\ pc[i] = "idle"
    /\ \E r \in Requests : request' = [request EXCEPT ![i] = r]
    /\ pc' = [pc EXCEPT ![i] = "options_check"]
    /\ overlapped' = (overlapped \/ \E j \in Invocations : Running(j))
    /\ UNCHANGED <<CORS_HEADERS, secret, openai_api_key, user_query, docs, vectorstore,
                   response_txt, response, exception, calls, trace, svars>>

CheckOptions_Skip(i) ==
    /\ Step(i, "options_check", "credential_check", "options_check")
    /\ UNCHANGED <<CORS_HEADERS, secret, request, openai_api_key, user_query, docs,
                   vectorstore, response_txt, response, exception, calls, overlapped, svars>>

\* 1. the OPTIONS (preflight) request
CheckOptions(i) ==
    /\ IF request[i].method = "OPTIONS"
       THEN /\ Step(i, "options_check", "done", "options_check")
            /\ response' = [response EXCEPT ![i] = PreflightResponse(CORS_HEADERS)]
       ELSE /\ Step(i, "options_check", "credential_check", "options_check")
            /\ UNCHANGED response
    /\ UNCHANGED <<CORS_HEADERS, secret, request, openai_api_key, user_query, docs,
                   vectorstore, response_txt, exception, calls, overlapped, svars>>

\* 2. the API key
CheckCredential(i) ==
    /\ openai_api_key' = [openai_api_key EXCEPT ![i] = secret]
    /\ IF Falsy(secret)
       THEN /\ Step(i, "credential_check", "done", "credential_check")
            /\ response' = [response EXCEPT ![i] = MissingKeyResponse(CORS_HEADERS)]
       ELSE /\ Step(i, "credential_check", "parse_query", "credential_check")
            /\ UNCHANGED response
    /\ UNCHANGED <<CORS_HEADERS, secret, request, user_query, docs, vectorstore,
                   response_txt, exception, calls, overlapped, svars>>

\* 3. the question: request_json.get(...) raises AttributeError when
\* request_json is None or any JSON value without a get method.
ParseQuery(i) ==
    /\ IF request[i].body.kind = "dict"
       THEN /\ Step(i, "parse_query", "split", "parse_query")
            /\ user_query' = [user_query EXCEPT ![i] = GetPrompt(request[i].body)]
            /\ UNCHANGED exception
       ELSE /\ Step(i, "parse_query", "fault", "parse_query")
            /\ exception' = [exception EXCEPT ![i] = "AttributeError"]
            /\ UNCHANGED user_query
    /\ UNCHANGED <<CORS_HEADERS, secret, request, openai_api_key, docs, vectorstore,
                   response_txt, response, calls, overlapped, svars>>

\* 5. the knowledge text split into chunks
SplitKnowledge(i) ==
    /\ Step(i, "split", "embed_index", "split")
    /\ docs' = [docs EXCEPT ![i] = split_text(knowledge_text)]
    /\ UNCHANGED <<CORS_HEADERS, secret, request, openai_api_key, user_query,
                   vectorstore, response_txt, response, exception, calls, overlapped, svars>>

Called(i, call, outcome) ==
    calls' = [calls EXCEPT ![i][call] = Append(@, outcome)]

EmbedIndex_Shared(i) ==
    /\ \/ /\ Step(i, "embed_index", "retrieve", "embed_index")
          /\ Called(i, "embed", "ok")
          /\ vectorstore' = [j \in Invocations |-> vectorstore[j] \o docs[i]]
          /\ UNCHANGED exception
       \/ /\ Step(i, "embed_index", "fault", "embed_index")
          /\ Called(i, "embed", "error")
          /\ exception' = [exception EXCEPT ![i] = "EmbeddingError"]
          /\ UNCHANGED vectorstore
    /\ UNCHANGED <<CORS_HEADERS, secret, request, openai_api_key, user_query, docs,
                   response_txt, response, overlapped, svars>>

\* The chunks embedded and the index built from them: the embedding
\* provider answers or fails.
EmbedIndex(i) ==
    /\ \/ /\ Step(i, "embed_index", "retrieve", "embed_index")
          /\ Called(i, "embed", "ok")
          /\ vectorstore' = [vectorstore EXCEPT ![i] = docs[i]]
          /\ UNCHANGED exception
       \/ /\ Step(i, "embed_index", "fault", "embed_index")
          /\ Called(i, "embed", "error")
          /\ exception' = [exception EXCEPT ![i] = "EmbeddingError"]
          /\ UNCHANGED vectorstore
    /\ UNCHANGED <<CORS_HEADERS, secret, request, openai_api_key, user_query, docs,
                   response_txt, response, overlapped, svars>>

\* 9. retrieval_chain.invoke, its retrieval: the search answers or fails.
Retrieve(i) ==
    /\ \/ /\ Step(i, "retrieve", "generate", "retrieve")
          /\ Called(i, "search", "ok")
          /\ response_txt' = [response_txt EXCEPT ![i] =
                 [input |-> user_query[i], context |-> Retrieved(vectorstore[i]),
                  answer |-> ""]]
          /\ UNCHANGED exception
       \/ /\ Step(i, "retrieve", "fault", "retrieve")
          /\ Called(i, "search", "error")
          /\ exception' = [exception EXCEPT ![i] = "SearchError"]
          /\ UNCHANGED response_txt
    /\ UNCHANGED <<CORS_HEADERS, secret, request, openai_api_key, user_query, docs,
                   vectorstore, response, overlapped, svars>>

Generate_Retry(i) ==
    /\ \/ /\ Step(i, "generate", "respond", "generate")
          /\ Called(i, "chat", "ok")
          /\ \E a \in Answers :
                 response_txt' = [response_txt EXCEPT ![i].answer = a]
       \/ /\ pc[i] = "generate"
          /\ Len(calls[i].chat) < 2
          /\ Called(i, "chat", "error")
          /\ UNCHANGED <<pc, trace, response_txt>>
    /\ UNCHANGED <<CORS_HEADERS, secret, request, openai_api_key, user_query, docs,
                   vectorstore, response, exception, overlapped, svars>>

\* 9. retrieval_chain.invoke, its generation: the chat model answers or fails.
Generate(i) ==
    /\ \/ /\ Step(i, "generate", "respond", "generate")
          /\ Called(i, "chat", "ok")
          /\ \E a \in Answers :
                 response_txt' = [response_txt EXCEPT ![i].answer = a]
          /\ UNCHANGED exception
       \/ /\ Step(i, "generate", "fault", "generate")
          /\ Called(i, "chat", "error")
          /\ exception' = [exception EXCEPT ![i] = "ChatError"]
          /\ UNCHANGED response_txt
    /\ UNCHANGED <<CORS_HEADERS, secret, request, openai_api_key, user_query, docs,
                   vectorstore, response, overlapped, svars>>

\* 10. the result returned
Respond(i) ==
    /\ Step(i, "respond", "done", "respond")
    /\ response' = [response EXCEPT ![i] =
           SuccessResponse(user_query[i], response_txt[i], CORS_HEADERS)]
    /\ UNCHANGED <<CORS_HEADERS, secret, request, openai_api_key, user_query, docs,
                   vectorstore, response_txt, exception, calls, overlapped, svars>>

Next ==
    \E i \in Invocations :
        \/ Receive(i)
        \/ CheckOptions(i)
        \/ CheckCredential(i)
        \/ ParseQuery(i)
        \/ SplitKnowledge(i)
        \/ EmbedIndex(i)
        \/ Retrieve(i)
        \/ Generate(i)
        \/ Respond(i)

Spec == Init /\ [][Next]_vars

\* ------------------------------------------------------------ the claims
Finished(i) == pc[i] \in {"done", "fault"}

Range(f) == {f[k] : k \in DOMAIN f}

IsPrefix(a, b) == Len(a) <= Len(b) /\ a = SubSeq(b, 1, Len(a))

HasCors(r) ==
    /\ "Access-Control-Allow-Origin" \in DOMAIN r.headers
    /\ r.headers["Access-Control-Allow-Origin"] = "*"
    /\ "Access-Control-Allow-Methods" \in DOMAIN r.headers
    /\ r.headers["Access-Control-Allow-Methods"] = "GET, POST, OPTIONS"
    /\ "Access-Control-Allow-Headers" \in DOMAIN r.headers
    /\ r.headers["Access-Control-Allow-Headers"] = "Content-Type, Authorization"
    /\ "Access-Control-Max-Age" \in DOMAIN r.headers
    /\ r.headers["Access-Control-Max-Age"] = "3600"

Succeeded(i) ==
    /\ pc[i] = "done"
    /\ "status" \in DOMAIN response[i].json
    /\ response[i].json["status"] = "success"

\* C1: a request that is not OPTIONS, handled while the secret is missing or
\* empty, ends with status 500, a JSON body that has an `error` field and the
\* four CORS headers; it never gets past the credential check.
C1_MissingKeyIs500 ==
    \A i \in Invocations :
        (request[i].method /= "OPTIONS" /\ secret = "" /\ pc[i] /= "idle") =>
            /\ pc[i] \in {"options_check", "credential_check", "done"}
            /\ pc[i] = "done" =>
                /\ response[i].status = 500
                /\ response[i].kind = "json"
                /\ "error" \in DOMAIN response[i].json
                /\ HasCors(response[i])

C1_Witness ==
    \E i \in Invocations :
        /\ request[i].method = "POST" /\ secret = "" /\ pc[i] = "done"
        /\ response[i].status = 500

\* C2: an OPTIONS request ends with an empty body, status 204 and the four
\* CORS headers.
C2_OptionsIs204 ==
    \A i \in Invocations :
        (request[i].method = "OPTIONS" /\ pc[i] /= "idle") =>
            /\ pc[i] \in {"options_check", "done"}
            /\ pc[i] = "done" =>
                /\ response[i].kind = "text"
                /\ response[i].text = ""
                /\ response[i].status = 204
                /\ HasCors(response[i])

C2_Witness ==
    \E i \in Invocations :
        request[i].method = "OPTIONS" /\ pc[i] = "done" /\ response[i].status = 204

\* C3: every outcome of the handler, the error paths included, is a response
\* that carries the four CORS headers.
C3_EveryOutcomeHasCors ==
    \A i \in Invocations :
        Finished(i) => (response[i].kind /= "none" /\ HasCors(response[i]))

\* C4: with a valid credential and no usable JSON body, the handler raises
\* nothing and goes on with the fallback question.
C4_NoBodyFallsBack ==
    \A i \in Invocations :
        (request[i].body.kind = "none" /\ "parse_query" \in Range(trace[i])) =>
            (exception[i] = "" /\ pc[i] /= "fault" /\ user_query[i] = Fallback)

\* C5: the `query` of a successful response is the body's `prompt` when the
\* body has one, and the fallback sentence when it has none.
C5_QueryIsPromptOrFallback ==
    \A i \in Invocations :
        Succeeded(i) =>
            /\ "query" \in DOMAIN response[i].json
            /\ response[i].json["query"] =
                   IF "prompt" \in DOMAIN request[i].body.fields
                   THEN request[i].body.fields["prompt"]
                   ELSE "Firebase Functions RAG fallback question"

C5_Witness ==
    \E i, j \in Invocations :
        /\ Succeeded(i) /\ "prompt" \in DOMAIN request[i].body.fields
        /\ response[i].json["query"] = "q1"
        /\ Succeeded(j) /\ "prompt" \notin DOMAIN request[j].body.fields
        /\ response[j].json["query"] = Fallback

\* C6: a completed flow ends with status 200, `status` "success" and a
\* `source_documents_count` between 1 and the number of chunks.
C6_SuccessCountsSources ==
    \A i \in Invocations :
        (pc[i] = "done" /\ "respond" \in Range(trace[i])) =>
            /\ response[i].status = 200
            /\ "status" \in DOMAIN response[i].json
            /\ response[i].json["status"] = "success"
            /\ "source_documents_count" \in DOMAIN response[i].json
            /\ response[i].json["source_documents_count"] \in 1..Len(docs[i])

C6_Witness ==
    \E i \in Invocations :
        /\ pc[i] = "done" /\ "respond" \in Range(trace[i])
        /\ Len(docs[i]) = 2
        /\ response[i].json["source_documents_count"] = 2

\* C8: each provider call is attempted at most once per request, and the
\* first one that fails ends the request as a fault: no later call, no
\* response built by the handler.
C8_NoRetryNoFallback ==
    \A i \in Invocations :
        /\ \A c \in {"embed", "search", "chat"} : Len(calls[i][c]) <= 1
        /\ (\E c \in {"embed", "search", "chat"} : "error" \in Range(calls[i][c])) =>
               /\ pc[i] = "fault"
               /\ response[i] = NoResponse
        /\ "error" \in Range(calls[i].embed) => calls[i].search = <<>>
        /\ calls[i].search /= <<"ok">> => calls[i].chat = <<>>

C8_Witness ==
    \E i, j \in Invocations :
        /\ calls[i].search = <<"error">> /\ pc[i] = "fault"
        /\ calls[j].chat = <<"error">> /\ pc[j] = "fault"

StepOrder ==
    <<"options_check", "credential_check", "parse_query", "split", "embed_index",
      "retrieve", "generate", "respond">>

\* C9: the steps of an invocation run in the fixed order; no provider call
\* is made for an OPTIONS request or with a missing credential; an OPTIONS
\* request gets 204 whatever the credential.
C9_FixedOrder ==
    \A i \in Invocations :
        /\ IsPrefix(trace[i], StepOrder)
        /\ calls[i] /= NoCalls => (request[i].method /= "OPTIONS" /\ secret /= "")
        /\ (request[i].method = "OPTIONS" /\ trace[i] /= <<>>) =>
               (pc[i] = "done" /\ response[i].status = 204)

C9_Witness ==
    \E i, j \in Invocations :
        /\ secret = ""
        /\ request[i].method = "OPTIONS" /\ pc[i] = "done" /\ response[i].status = 204
        /\ request[j].method = "POST" /\ pc[j] = "done"
        /\ trace[j] = <<"options_check", "credential_check">>

\* The response of an invocation that runs alone on the same request, with
\* the same secret and the same answer of the chat model.
AloneResponse(req, key, answer) ==
    IF req.method = "OPTIONS"
    THEN [kind |-> "text", text |-> "", json |-> EmptyDict, status |-> 204,
          headers |-> DictUpdate([h \in {"Content-Type"} |-> "text/plain; charset=utf-8"],
                                 CORS_HEADERS_0)]
    ELSE [kind |-> "json", text |-> "",
          json |-> IF key = "" THEN ErrorBody
                   ELSE [query |-> DictGet(req.body.fields, "prompt", Fallback),
                         answer |-> answer,
                         source_documents_count |->
                             Min(DefaultK, Len(split_text(knowledge_text))),
                         status |-> "success"],
          status |-> IF key = "" THEN 500 ELSE 200,
          headers |-> DictUpdate([h \in {"Content-Type"} |-> "application/json"],
                                 CORS_HEADERS_0)]

\* C10: however invocations interleave, CORS_HEADERS keeps its four entries,
\* an invocation's index and retrieved context hold its own chunks only, and
\* its response is the one it gives when it runs alone.
C10_InvocationsIndependent ==
    /\ CORS_HEADERS = CORS_HEADERS_0
    /\ \A i \in Invocations :
        /\ vectorstore[i] \in {<<>>, docs[i]}
        /\ IsPrefix(response_txt[i].context, docs[i])
        /\ pc[i] = "done" =>
               response[i] = AloneResponse(request[i], secret, response_txt[i].answer)
        /\ pc[i] /= "done" => response[i] = NoResponse

C10_Witness ==
    /\ overlapped
    /\ \E i, j \in Invocations :
        /\ i /= j
        /\ Succeeded(i) /\ Succeeded(j)
        /\ response[i].json["answer"] /= response[j].json["answer"]

\* ------------------------------------------- the splitter on any text
BlockLens == {1, 250, 501}
Tokens == {NL} \cup {Blk(n) : n \in BlockLens}

RECURSIVE SeqsUpTo(_, _)
SeqsUpTo(S, k) ==
    IF k = 0 THEN {<<>>}
    ELSE LET prev == SeqsUpTo(S, k - 1)
         IN prev \cup {Append(s, t) : s \in {p \in prev : Len(p) = k - 1}, t \in S}

Texts == SeqsUpTo(Tokens, MaxTokens)

InitSplit ==
    /\ InitHandler
    /\ secret = ""
    /\ text \in Texts
    /\ chunks = <<>>
    /\ splitDone = FALSE

SplitText ==
    /\ ~splitDone
    /\ chunks' = split_text(text)
    /\ splitDone' = TRUE
    /\ UNCHANGED <<text, hvars>>

NextSplit == SplitText

SplitSpec == InitSplit /\ [][NextSplit]_vars

Ceil(a, b) == (a + b - 1) \div b

NonWs(s) == SelectSeq(s, LAMBDA t : ~IsWs(t))

HasBlankLine(s) == \E k \in 1..(Len(s) - 1) : s[k] = NL /\ s[k + 1] = NL

====
